---- MODULE Spec2Model ----
(***************************************************************************)
(* A model of novrin/web: package messages (the Responder that turns a     *)
(* ResponseHandlerFunc into an http.HandlerFunc) and package middleware    *)
(* (Queue, Stack).  The http.ResponseWriter the handlers write to is       *)
(* modelled by what net/http documents for it and by the two writers the   *)
(* tests use (httptest.ResponseRecorder, errorResponseWriter).             *)
(***************************************************************************)
EXTENDS Integers, Sequences, FiniteSets, TLC

\* ------------------------------------------------------------------ bounds
\* Most header values one Response carries, over all its keys.
MaxVals == 2
\* Most chunks a body procedure writes.
MaxBody == 2
\* Most bytes a failing sink accepts before its writes fail.
MaxRoom == 1
\* Most wrappers handed to Queue or Stack.
MaxWrappers == 3
\* Most calls a wrapped handler makes on its ResponseWriter before it returns
\* or panics.
MaxOps == 2

\* ------------------------------------------------------- program constants
MinStatus == 100
MaxStatus == 599
StatusOK == 200
StatusInternalServerError == 500

\* http.StatusText(http.StatusInternalServerError) followed by Fprintln's "\n".
ErrorText == "Internal Server Error\n"

MsgInvalid == "Handler returned a Response with invalid status code"
MsgStream == "Error streaming response body"
MsgBuffer == "Error buffering response body"
MsgFlush == "Error flushing buffered response"

\* ------------------------------------------------------------ input sets
Statuses == {0, 99, 100, 200, 500, 599, 600}
RawKeys == {"x-a", "X-A", "Content-Type"}
Vals == {"v1", "v2"}
Loggers == {"nil", "custom"}

\* textproto.CanonicalMIMEHeaderKey, which Header.Add, Set and Del apply to
\* the key they are given: the first letter and each letter after a hyphen in
\* upper case, the rest in lower case.
CanonicalKey(k) ==
    CASE k = "x-a" -> "X-A"
      [] k = "X-A" -> "X-A"
      [] k = "Content-Type" -> "Content-Type"
      [] k = "Content-Length" -> "Content-Length"
      [] k = "X-Content-Type-Options" -> "X-Content-Type-Options"

HeaderKeys == {"X-A", "Content-Type", "Content-Length", "X-Content-Type-Options"}

SeqsUpTo(S, n) == UNION {[1..k -> S] : k \in 0..n}

RECURSIVE TotalLen(_, _)
TotalLen(h, keys) ==
    IF keys = {} THEN 0
    ELSE LET k == CHOOSE x \in keys : TRUE
         IN Len(h[k]) + TotalLen(h, keys \ {k})

\* http.Header values a handler may return: a key that is absent maps to <<>>.
HeaderMaps ==
    {h \in [RawKeys -> SeqsUpTo(Vals, MaxVals)] : TotalLen(h, RawKeys) <= MaxVals}

\* A Response as its ResponseHandlerFunc returns it; HasBody is WriteBody # nil.
Responses == [Status : Statuses, Headers : HeaderMaps, HasBody : BOOLEAN]

\* A Responder's configuration.
Responders == [Logger : Loggers, Buffer : BOOLEAN]

\* What one run of a body procedure does: it writes data chunk by chunk, and
\* when fails it returns an error of its own after failAt chunks.
Data(n) == [i \in 1..n |-> ToString(i)]
BodyProcs ==
    {[data |-> Data(n), fails |-> FALSE, failAt |-> 0] : n \in 0..MaxBody}
    \cup UNION {{[data |-> Data(n), fails |-> TRUE, failAt |-> k] : k \in 0..n}
                : n \in 0..MaxBody}
NoProc == [data |-> <<>>, fails |-> FALSE, failAt |-> 0]

\* -------------------------------------------------- http.ResponseWriter
EmptyHeader == [k \in HeaderKeys |-> <<>>]

Call(op, key, val, n) == [op |-> op, key |-> key, val |-> val, n |-> n]

\* A recorder, and when ~ok one whose Write fails once room bytes have gone
\* through (room = 0 is the tests' errorResponseWriter).
NewWriter(ok, room) ==
    [kind |-> "rw", header |-> EmptyHeader, code |-> 0, snap |-> EmptyHeader,
     body |-> <<>>, ok |-> ok, room |-> room, calls |-> <<>>]

Sinks == {NewWriter(TRUE, 0)} \cup {NewWriter(FALSE, n) : n \in 0..MaxRoom}

\* bytes.Buffer as an io.Writer.
NewBuffer == [kind |-> "buf", data |-> <<>>]

HeaderAdd_Sets(w, k, v) ==
    [w EXCEPT !.header[CanonicalKey(k)] = <<v>>,
              !.calls = Append(@, Call("Set", k, v, 0))]

HeaderAdd(w, k, v) ==
    [w EXCEPT !.header[CanonicalKey(k)] = Append(@, v),
              !.calls = Append(@, Call("Add", k, v, 0))]

HeaderSet(w, k, v) ==
    [w EXCEPT !.header[CanonicalKey(k)] = <<v>>,
              !.calls = Append(@, Call("Set", k, v, 0))]

HeaderDel(w, k) ==
    [w EXCEPT !.header[CanonicalKey(k)] = <<>>,
              !.calls = Append(@, Call("Del", k, "", 0))]

\* The first call commits the status with the headers as they are then; a
\* later call is superfluous and changes nothing the client sees.
WriteHeader(w, status) ==
    LET c == [w EXCEPT !.calls = Append(@, Call("WriteHeader", "", "", status))]
    IN IF w.code # 0 THEN c
       ELSE [c EXCEPT !.code = status, !.snap = w.header]

Min(a, b) == IF a <= b THEN a ELSE b

\* Write(p): [w, n, err].  Bytes that reach the recorder before any
\* WriteHeader make it call WriteHeader(StatusOK) itself: the call is
\* recorded with val "implicit".
Write(w, p) ==
    LET n == IF w.ok THEN Len(p) ELSE Min(Len(p), w.room)
        err == ~w.ok /\ (w.room = 0 \/ n < Len(p))
        through == w.ok \/ n > 0
        c == IF through /\ w.code = 0
             THEN [w EXCEPT !.code = StatusOK, !.snap = w.header,
                            !.calls = Append(@, Call("WriteHeader", "", "implicit", StatusOK))]
             ELSE w
    IN [w |-> [c EXCEPT !.body = @ \o SubSeq(p, 1, n),
                        !.room = IF w.ok THEN 0 ELSE @ - n,
                        !.calls = Append(@, Call("Write", "", "", n))],
        n |-> n, err |-> err]

\* io.Writer.Write on either kind of writer.
WriterWrite(w, p) ==
    IF w.kind = "buf"
    THEN [w |-> [w EXCEPT !.data = @ \o p], n |-> Len(p), err |-> FALSE]
    ELSE Write(w, p)

\* http.Error on a header map it empties first.
HttpError_ResetsHeader(w, error, code) ==
    LET w0 == [w EXCEPT !.header = EmptyHeader]
        w2 == HeaderSet(w0, "Content-Type", "text/plain; charset=utf-8")
        w3 == HeaderSet(w2, "X-Content-Type-Options", "nosniff")
        w4 == WriteHeader(w3, code)
    IN Write(w4, <<error>>).w

\* http.Error(w, error, code).
HttpError(w, error, code) ==
    LET w1 == HeaderDel(w, "Content-Length")
        w2 == HeaderSet(w1, "Content-Type", "text/plain; charset=utf-8")
        w3 == HeaderSet(w2, "X-Content-Type-Options", "nosniff")
        w4 == WriteHeader(w3, code)
    IN Write(w4, <<error>>).w

\* resp.WriteBody(w): the procedure p run against writer w from its chunk
\* i + 1 on: [w, err].  A failed Write ends it with that error.
RECURSIVE WriteBody(_, _, _)
WriteBody(w, p, i) ==
    IF p.fails /\ i = p.failAt THEN [w |-> w, err |-> TRUE]
    ELSE IF i = Len(p.data) THEN [w |-> w, err |-> FALSE]
    ELSE LET r == WriterWrite(w, <<p.data[i + 1]>>)
         IN IF r.err THEN [w |-> r.w, err |-> TRUE]
            ELSE WriteBody(r.w, p, i + 1)

\* buf.WriteTo(w) that writes nothing and reports success.
WriteTo_Nothing(b, w) == [w |-> w, err |-> FALSE]

\* buf.WriteTo(w): one Write of all the buffer holds, none when it is empty; a
\* Write that takes less than all of it is an error (io.ErrShortWrite).
WriteTo(b, w) ==
    IF Len(b.data) = 0 THEN [w |-> w, err |-> FALSE]
    ELSE LET r == Write(w, b.data)
         IN [w |-> r.w, err |-> r.err \/ r.n < Len(b.data)]

\* ------------------------------------------------------------- Responder
VARIABLES
    re,       \* the Responder's configuration
    pc,       \* where the handler HandlerFunc returned is in its code
    resp,     \* the Response fn(r) returned
    w,        \* the http.ResponseWriter of the request
    buf,      \* the bytes.Buffer of the buffered path
    proc,     \* what the body procedure did when it ran
    invoked,  \* how many times the body procedure was invoked
    pending,  \* keys of resp.Headers the range loop has yet to visit
    err,      \* the error the last WriteBody or WriteTo returned, "" for nil
    log       \* records logged, as [logger, msg]

\* ------------------------------------------------------------ middleware
VARIABLES
    mpc,      \* "idle", or "serve" while a request runs through handler
    kind,     \* "Queue" or "Stack": the combinator that built handler
    ms,       \* the middleware handed to it
    handler,  \* the composed handler, or what of it has yet to run
    out       \* what the request has written, in order

\* --------------------------------------- AccessLogger, RecoverAndHandle
VARIABLES
    active,   \* the requests the server gets
    chain,    \* the middleware around the handler, outermost first
    mwLogger, \* the logger handed to AccessLogger and RecoverAndHandle
    rpc,      \* per request: "idle", "call", "return", "panic", "done", "crashed"
    prog,     \* per request: what the wrapped handler has done so far
    depth,    \* per request: how many middleware of chain are on its stack
    conn,     \* per request: the server's http.ResponseWriter
    cw,       \* the status field of each captureWriter
    panicv,   \* per request: the value of the panic in flight, "" for none
    rlog      \* per request: records logged and fallback calls, in order

reqVars == <<active, chain, mwLogger, rpc, prog, depth, conn, cw, panicv, rlog>>

vars == <<re, pc, resp, w, buf, proc, invoked, pending, err, log, mpc, kind, ms, handler, out, reqVars>>
respVars == <<re, pc, resp, w, buf, proc, invoked, pending, err, log>>
mwVars == <<mpc, kind, ms, handler, out>>

Requests == {"r1", "r2"}

\* re.logger()
logger ==
    IF re.Logger = "nil" THEN "default" ELSE re.Logger

LogError(msg) == Append(log, [logger |-> logger, msg |-> msg])

ValidStatus_NonNegative(s) == ~(s < 0 \/ s > MaxStatus)
ValidStatus_Exclusive(s) == ~(s <= MinStatus \/ s >= MaxStatus)
ValidStatus(s) == ~(s < MinStatus \/ s > MaxStatus)

NoResponse == [Status |-> 0, Headers |-> [k \in RawKeys |-> <<>>], HasBody |-> FALSE]

\* A Responder of either configuration, no request in hand.
Init ==
    /\ re \in Responders
    /\ pc = "idle"
    /\ resp = NoResponse
    /\ w = NewWriter(TRUE, 0)
    /\ buf = NewBuffer
    /\ proc = NoProc
    /\ invoked = 0
    /\ pending = {}
    /\ err = ""
    /\ log = <<>>
    /\ mpc = "idle"
    /\ kind = ""
    /\ ms = <<>>
    /\ handler = <<>>
    /\ out = <<>>
    /\ active = {}
    /\ chain = <<>>
    /\ mwLogger = "nil"
    /\ rpc = [r \in Requests |-> "idle"]
    /\ prog = [r \in Requests |-> <<>>]
    /\ depth = [r \in Requests |-> 0]
    /\ conn = [r \in Requests |-> NewWriter(TRUE, 0)]
    /\ cw = [c \in Requests |-> 0]
    /\ panicv = [r \in Requests |-> ""]
    /\ rlog = [r \in Requests |-> <<>>]

\* What the handler does to the ResponseWriter once it has logged an error of
\* the body procedure in streaming mode: nothing, the status is committed.
AfterStreamError_SendsError(sink) ==
    HttpError(sink, ErrorText, StatusInternalServerError)
AfterStreamError(sink) == sink

\* ... an error of the body procedure in buffered mode: nothing has been sent.
AfterBufferError_NoText(sink) ==
    WriteHeader(sink, StatusInternalServerError)
AfterBufferError(sink) ==
    HttpError(sink, ErrorText, StatusInternalServerError)

\* ... an error of the flush: nothing, the status is committed.
AfterFlushError_SendsError(sink) ==
    HttpError(sink, ErrorText, StatusInternalServerError)
AfterFlushError(sink) == sink

\* A request arrives with its own ResponseWriter, and fn(r) returns r.
Receive ==
    /\ pc = "idle"
    /\ pc' = "validate"
    /\ resp' \in Responses
    /\ w' \in Sinks
    /\ buf' = NewBuffer
    /\ proc' = NoProc
    /\ invoked' = 0
    /\ pending' = {}
    /\ err' = ""
    /\ log' = <<>>
    /\ UNCHANGED <<re, mwVars, reqVars>>

InvalidStatus ==
    /\ pc = "validate"
    /\ ~ValidStatus(resp.Status)
    /\ log' = LogError(MsgInvalid)
    /\ w' = HttpError(w, ErrorText, StatusInternalServerError)
    /\ pc' = "done"
    /\ UNCHANGED <<re, resp, buf, proc, invoked, pending, err, mwVars, reqVars>>

StatusValid ==
    /\ pc = "validate"
    /\ ValidStatus(resp.Status)
    /\ pending' = {k \in RawKeys : resp.Headers[k] # <<>>}
    /\ pc' = "headers"
    /\ UNCHANGED <<re, resp, w, buf, proc, invoked, err, log, mwVars, reqVars>>

\* The inner loop: every value of key k, in order.
RECURSIVE AddAll(_, _, _)
AddAll(sink, k, vals) ==
    IF vals = <<>> THEN sink
    ELSE AddAll(HeaderAdd(sink, k, Head(vals)), k, Tail(vals))

\* One turn of the outer loop; Go ranges over a map in no fixed order.
CopyHeader ==
    /\ pc = "headers"
    /\ \E k \in pending :
          /\ w' = AddAll(w, k, resp.Headers[k])
          /\ pending' = pending \ {k}
    /\ UNCHANGED <<re, pc, resp, buf, proc, invoked, err, log, mwVars, reqVars>>

NilBody_NoCommit ==
    /\ pc = "headers"
    /\ pending = {}
    /\ ~resp.HasBody
    /\ pc' = "done"
    /\ UNCHANGED <<re, resp, w, buf, proc, invoked, pending, err, log, mwVars, reqVars>>

NilBody ==
    /\ pc = "headers"
    /\ pending = {}
    /\ ~resp.HasBody
    /\ w' = WriteHeader(w, resp.Status)
    /\ pc' = "done"
    /\ UNCHANGED <<re, resp, buf, proc, invoked, pending, err, log, mwVars, reqVars>>

StreamCommit ==
    /\ pc = "headers"
    /\ pending = {}
    /\ resp.HasBody
    /\ ~re.Buffer
    /\ w' = WriteHeader(w, resp.Status)
    /\ pc' = "stream"
    /\ UNCHANGED <<re, resp, buf, proc, invoked, pending, err, log, mwVars, reqVars>>

StreamBody ==
    /\ pc = "stream"
    /\ \E p \in BodyProcs :
          LET r == WriteBody(w, p, 0)
          IN /\ w' = IF r.err THEN AfterStreamError(r.w) ELSE r.w
             /\ err' = IF r.err THEN "WriteBody" ELSE ""
             /\ log' = IF r.err THEN LogError(MsgStream) ELSE log
             /\ proc' = p
    /\ invoked' = invoked + 1
    /\ pc' = "done"
    /\ UNCHANGED <<re, resp, buf, pending, mwVars, reqVars>>

\* BufferBody with the error of the body procedure logged and not acted on.
BufferBody_CommitsAnyway ==
    /\ pc = "headers"
    /\ pending = {}
    /\ resp.HasBody
    /\ re.Buffer
    /\ \E p \in BodyProcs :
          LET r == WriteBody(NewBuffer, p, 0)
          IN /\ buf' = r.w
             /\ err' = IF r.err THEN "WriteBody" ELSE ""
             /\ log' = IF r.err THEN LogError(MsgBuffer) ELSE log
             /\ proc' = p
    /\ pc' = "commit"
    /\ invoked' = invoked + 1
    /\ UNCHANGED <<re, resp, w, pending, mwVars, reqVars>>

BufferBody ==
    /\ pc = "headers"
    /\ pending = {}
    /\ resp.HasBody
    /\ re.Buffer
    /\ \E p \in BodyProcs :
          LET r == WriteBody(NewBuffer, p, 0)
          IN /\ buf' = r.w
             /\ err' = IF r.err THEN "WriteBody" ELSE ""
             /\ IF r.err
                THEN /\ log' = LogError(MsgBuffer)
                     /\ w' = AfterBufferError(w)
                     /\ pc' = "done"
                ELSE /\ UNCHANGED <<log, w>>
                     /\ pc' = "commit"
             /\ proc' = p
    /\ invoked' = invoked + 1
    /\ UNCHANGED <<re, resp, pending, mwVars, reqVars>>

BufferCommit ==
    /\ pc = "commit"
    /\ w' = WriteHeader(w, resp.Status)
    /\ pc' = "flush"
    /\ UNCHANGED <<re, resp, buf, proc, invoked, pending, err, log, mwVars, reqVars>>

Flush ==
    /\ pc = "flush"
    /\ LET r == WriteTo(buf, w)
       IN /\ w' = IF r.err THEN AfterFlushError(r.w) ELSE r.w
          /\ err' = IF r.err THEN "WriteTo" ELSE ""
          /\ log' = IF r.err THEN LogError(MsgFlush) ELSE log
    /\ pc' = "done"
    /\ UNCHANGED <<re, resp, buf, proc, invoked, pending, mwVars, reqVars>>

\* The handler returns; what the request held is dropped.
Return ==
    /\ pc = "done"
    /\ pc' = "idle"
    /\ resp' = NoResponse
    /\ w' = NewWriter(TRUE, 0)
    /\ buf' = NewBuffer
    /\ proc' = NoProc
    /\ invoked' = 0
    /\ pending' = {}
    /\ err' = ""
    /\ log' = <<>>
    /\ UNCHANGED <<re, mwVars, reqVars>>

\* ------------------------------------------------------- Queue and Stack
\* The tests' middleware sign(msg) and their core handler.  A handler is
\* written as what it writes before it calls the handler it wraps, outermost
\* first: sign(msg)(h) writes msg, then serves h.
Signs == {"m1_", "m2_", "m3_"}
core == <<"core">>
sign(msg, h) == <<msg>> \o h

Reverse(q) == [i \in 1..Len(q) |-> q[Len(q) + 1 - i]]

\* Queue(mws...)(h): for i := range ms { h = ms[i](h) }, from index i on.
RECURSIVE QueueFrom(_, _, _)
QueueFrom(mws, i, h) ==
    IF i > Len(mws) THEN h
    ELSE QueueFrom(mws, i + 1, sign(mws[i], h))

Queue_FirstOutermost(mws, h) == mws \o h
\* Queue that hands back no handler when it is given no middleware.
Queue_EmptyDropsHandler(mws, h) ==
    IF mws = <<>> THEN <<>> ELSE QueueFrom(mws, 1, h)
Queue(mws, h) == QueueFrom(mws, 1, h)

\* Stack(mws...)(h): for i := range ms { h = ms[len(ms)-1-i](h) }.
RECURSIVE StackFrom(_, _, _)
StackFrom(mws, i, h) ==
    IF i > Len(mws) THEN h
    ELSE StackFrom(mws, i + 1, sign(mws[Len(mws) - i + 1], h))

Stack_LastOutermost(mws, h) == Reverse(mws) \o h
Stack(mws, h) == StackFrom(mws, 1, h)

MiddlewareLists == SeqsUpTo(Signs, MaxWrappers)

\* No handler composed yet.
InitCompose ==
    /\ mpc = "idle"
    /\ kind = ""
    /\ ms = <<>>
    /\ handler = <<>>
    /\ out = <<>>
    /\ re = [Logger |-> "nil", Buffer |-> FALSE]
    /\ pc = "idle"
    /\ resp = NoResponse
    /\ w = NewWriter(TRUE, 0)
    /\ buf = NewBuffer
    /\ proc = NoProc
    /\ invoked = 0
    /\ pending = {}
    /\ err = ""
    /\ log = <<>>
    /\ active = {}
    /\ chain = <<>>
    /\ mwLogger = "nil"
    /\ rpc = [r \in Requests |-> "idle"]
    /\ prog = [r \in Requests |-> <<>>]
    /\ depth = [r \in Requests |-> 0]
    /\ conn = [r \in Requests |-> NewWriter(TRUE, 0)]
    /\ cw = [c \in Requests |-> 0]
    /\ panicv = [r \in Requests |-> ""]
    /\ rlog = [r \in Requests |-> <<>>]

\* Queue(mws...)(core) is built and a request is handed to it.
ServeQueue ==
    /\ mpc = "idle"
    /\ mpc' = "serve"
    /\ kind' = "Queue"
    /\ \E mws \in MiddlewareLists :
          /\ ms' = mws
          /\ handler' = Queue(mws, core)
    /\ out' = <<>>
    /\ UNCHANGED <<respVars, reqVars>>

\* Stack(mws...)(core) is built and a request is handed to it.
ServeStack ==
    /\ mpc = "idle"
    /\ mpc' = "serve"
    /\ kind' = "Stack"
    /\ \E mws \in MiddlewareLists :
          /\ ms' = mws
          /\ handler' = Stack(mws, core)
    /\ out' = <<>>
    /\ UNCHANGED <<respVars, reqVars>>

\* ServeHTTP of the outermost handler yet to run: it writes, then calls the
\* handler it wraps.
ServeHTTP ==
    /\ mpc = "serve"
    /\ handler # <<>>
    /\ out' = Append(out, Head(handler))
    /\ handler' = Tail(handler)
    /\ UNCHANGED <<mpc, kind, ms, respVars, reqVars>>

\* The core handler has returned, and every handler around it.
Served ==
    /\ mpc = "serve"
    /\ handler = <<>>
    /\ mpc' = "idle"
    /\ UNCHANGED <<kind, ms, handler, out, respVars, reqVars>>

NextMiddleware ==
    \/ ServeQueue
    \/ ServeStack
    \/ ServeHTTP
    \/ Served

\* Requests through handlers composed by Queue and by Stack.
SpecCompose == InitCompose /\ [][NextMiddleware]_vars

NextResponder ==
    \/ Receive
    \/ InvalidStatus
    \/ StatusValid
    \/ CopyHeader
    \/ NilBody
    \/ StreamCommit
    \/ StreamBody
    \/ BufferBody
    \/ BufferCommit
    \/ Flush
    \/ Return

\* The Responder serving requests, one after the other.
Spec == Init /\ [][NextResponder]_vars

\* ------------------------------- requests through AccessLogger and RecoverAndHandle
\* The middleware around the handler, outermost first.
Chains ==
    {<<"recover">>, <<"access">>, <<"recover", "access">>, <<"access", "recover">>}

\* What a handler does with its ResponseWriter, one call at a time.
WH(code) == [op |-> "WriteHeader", code |-> code, data |-> ""]
Wr(data) == [op |-> "Write", code |-> 0, data |-> data]
Pn(value) == [op |-> "panic", code |-> 0, data |-> value]

Codes == {0, 200, 404}
HandlerOps == {WH(c) : c \in Codes} \cup {Wr("ok")}
PanicValue == "reached panic"

\* A fallback handler that sets the status and writes nothing.
FallbackOps_StatusOnly == <<WH(StatusInternalServerError)>>

\* The tests' fallback handler.
FallbackOps == <<WH(StatusInternalServerError), Wr("caught panic")>>

NoPanic == ""

\* The logger a middleware ends up with: slog.Default() when handed nil.
LoggerOf(l) == IF l = "nil" THEN "default" ELSE l

\* net/http: a status code that WriteHeader refuses by panicking.
InvalidCode(code) == code < 100 \/ code > 999

\* WriteHeader of the server's own ResponseWriter: [conn, panic].  A call
\* after the commit is ignored before its code is looked at.
ServerWriteHeader(c, code) ==
    IF c.code = 0 /\ InvalidCode(code)
    THEN [conn |-> c, panic |-> "invalid WriteHeader code"]
    ELSE [conn |-> WriteHeader(c, code), panic |-> NoPanic]

\* (rw *captureWriter) WriteHeader on rw = [status, conn].
CaptureWriteHeader(rw, statusCode) ==
    LET code == IF statusCode = 0 THEN StatusOK ELSE statusCode
        sw == ServerWriteHeader(rw.conn, code)
    IN [status |-> code, conn |-> sw.conn, panic |-> sw.panic]

\* The ResponseWriter a handler is given when n middleware of a chain are
\* around it: AccessLogger's captureWriter if one of them is AccessLogger,
\* else the server's.
ViewAt(c, n) ==
    IF \E j \in 1..n : c[j] = "access" THEN "capture" ELSE "server"

\* One call of a handler on the ResponseWriter it was given.  Write is the
\* embedded ResponseWriter's even on a captureWriter.
Step(op, view, rw) ==
    IF op.op = "panic" THEN [rw EXCEPT !.panic = op.data]
    ELSE IF op.op = "Write"
    THEN [rw EXCEPT !.conn = Write(rw.conn, <<op.data>>).w]
    ELSE IF view = "capture" THEN CaptureWriteHeader(rw, op.code)
    ELSE LET sw == ServerWriteHeader(rw.conn, op.code)
         IN [rw EXCEPT !.conn = sw.conn, !.panic = sw.panic]

\* A handler's calls one after the other, up to the first that panics.
RECURSIVE RunOps(_, _, _)
RunOps(ops, view, rw) ==
    IF ops = <<>> \/ rw.panic # NoPanic THEN rw
    ELSE RunOps(Tail(ops), view, Step(Head(ops), view, rw))

Fresh == [status |-> 0, conn |-> NewWriter(TRUE, 0), panic |-> NoPanic]

\* One captureWriter for all the requests.
CaptureOf_Shared(r) == "r1"

\* The captureWriter of a request: AccessLogger makes one per request.
CaptureOf(r) == r

\* What a request leaves behind: the log records ("access" with the status
\* attribute, "error" with the panic's text in arg) and the calls of the
\* fallback ("fallback" with the ResponseWriter it was given in arg).
Record(k, l, status, arg) ==
    [kind |-> k, logger |-> l, status |-> status, arg |-> arg]

\* The captureWriter (or, without one, the server's ResponseWriter alone) as
\* the handlers of request r see it.
Rw(r) == [status |-> cw[CaptureOf(r)], conn |-> conn[r], panic |-> NoPanic]

InitRequest ==
    /\ re = [Logger |-> "nil", Buffer |-> FALSE]
    /\ pc = "idle"
    /\ resp = NoResponse
    /\ w = NewWriter(TRUE, 0)
    /\ buf = NewBuffer
    /\ proc = NoProc
    /\ invoked = 0
    /\ pending = {}
    /\ err = ""
    /\ log = <<>>
    /\ mpc = "idle"
    /\ kind = ""
    /\ ms = <<>>
    /\ handler = <<>>
    /\ out = <<>>
    /\ active = {"r1"}
    /\ chain \in Chains
    /\ mwLogger \in Loggers
    /\ rpc = [r \in Requests |-> "idle"]
    /\ prog = [r \in Requests |-> <<>>]
    /\ depth = [r \in Requests |-> 0]
    /\ conn = [r \in Requests |-> NewWriter(TRUE, 0)]
    /\ cw = [c \in Requests |-> 0]
    /\ panicv = [r \in Requests |-> NoPanic]
    /\ rlog = [r \in Requests |-> <<>>]

InitConcurrent ==
    /\ re = [Logger |-> "nil", Buffer |-> FALSE]
    /\ pc = "idle"
    /\ resp = NoResponse
    /\ w = NewWriter(TRUE, 0)
    /\ buf = NewBuffer
    /\ proc = NoProc
    /\ invoked = 0
    /\ pending = {}
    /\ err = ""
    /\ log = <<>>
    /\ mpc = "idle"
    /\ kind = ""
    /\ ms = <<>>
    /\ handler = <<>>
    /\ out = <<>>
    /\ active = Requests
    /\ chain = <<"access">>
    /\ mwLogger = "custom"
    /\ rpc = [r \in Requests |-> "idle"]
    /\ prog = [r \in Requests |-> <<>>]
    /\ depth = [r \in Requests |-> 0]
    /\ conn = [r \in Requests |-> NewWriter(TRUE, 0)]
    /\ cw = [c \in Requests |-> 0]
    /\ panicv = [r \in Requests |-> NoPanic]
    /\ rlog = [r \in Requests |-> <<>>]

\* The server hands request r to the outermost handler.
Start(r) ==
    /\ rpc[r] = "idle"
    /\ r \in active
    /\ rpc' = [rpc EXCEPT ![r] = "call"]
    /\ UNCHANGED <<active, chain, mwLogger, prog, depth, conn, cw, panicv, rlog>>
    /\ UNCHANGED <<respVars, mwVars>>

\* AccessLogger's handler: a new captureWriter, then h.ServeHTTP(rw, r).
EnterAccess(r) ==
    /\ rpc[r] = "call"
    /\ depth[r] < Len(chain)
    /\ chain[depth[r] + 1] = "access"
    /\ cw' = [cw EXCEPT ![CaptureOf(r)] = 0]
    /\ depth' = [depth EXCEPT ![r] = @ + 1]
    /\ UNCHANGED <<active, chain, mwLogger, rpc, prog, conn, panicv, rlog>>
    /\ UNCHANGED <<respVars, mwVars>>

\* RecoverAndHandle's handler: the deferred function, then h.ServeHTTP(w, r).
EnterRecover(r) ==
    /\ rpc[r] = "call"
    /\ depth[r] < Len(chain)
    /\ chain[depth[r] + 1] = "recover"
    /\ depth' = [depth EXCEPT ![r] = @ + 1]
    /\ UNCHANGED <<active, chain, mwLogger, rpc, prog, conn, cw, panicv, rlog>>
    /\ UNCHANGED <<respVars, mwVars>>

\* The wrapped handler makes one more call on its ResponseWriter.
HandlerCall(r) ==
    /\ rpc[r] = "call"
    /\ depth[r] = Len(chain)
    /\ Len(prog[r]) < MaxOps
    /\ \E op \in HandlerOps :
          LET res == Step(op, ViewAt(chain, Len(chain)), Rw(r))
          IN /\ prog' = [prog EXCEPT ![r] = Append(@, op)]
             /\ conn' = [conn EXCEPT ![r] = res.conn]
             /\ cw' = [cw EXCEPT ![CaptureOf(r)] = res.status]
             /\ panicv' = [panicv EXCEPT ![r] = res.panic]
             /\ rpc' = [rpc EXCEPT ![r] = IF res.panic = NoPanic THEN "call" ELSE "panic"]
    /\ UNCHANGED <<active, chain, mwLogger, depth, rlog>>
    /\ UNCHANGED <<respVars, mwVars>>

\* The wrapped handler panics.
HandlerPanic(r) ==
    /\ rpc[r] = "call"
    /\ depth[r] = Len(chain)
    /\ prog' = [prog EXCEPT ![r] = Append(@, Pn(PanicValue))]
    /\ panicv' = [panicv EXCEPT ![r] = PanicValue]
    /\ rpc' = [rpc EXCEPT ![r] = "panic"]
    /\ UNCHANGED <<active, chain, mwLogger, depth, conn, cw, rlog>>
    /\ UNCHANGED <<respVars, mwVars>>

\* The wrapped handler returns.
HandlerReturn(r) ==
    /\ rpc[r] = "call"
    /\ depth[r] = Len(chain)
    /\ rpc' = [rpc EXCEPT ![r] = "return"]
    /\ UNCHANGED <<active, chain, mwLogger, prog, depth, conn, cw, panicv, rlog>>
    /\ UNCHANGED <<respVars, mwVars>>

\* AccessLogger after h.ServeHTTP has returned: logger.Info with rw.status.
ReturnAccess(r) ==
    /\ rpc[r] = "return"
    /\ depth[r] > 0
    /\ chain[depth[r]] = "access"
    /\ rlog' = [rlog EXCEPT ![r] =
                   Append(@, Record("access", LoggerOf(mwLogger), cw[CaptureOf(r)], ""))]
    /\ depth' = [depth EXCEPT ![r] = @ - 1]
    /\ UNCHANGED <<active, chain, mwLogger, rpc, prog, conn, cw, panicv>>
    /\ UNCHANGED <<respVars, mwVars>>

\* A panic leaves AccessLogger's handler: nothing there is deferred.
UnwindAccess(r) ==
    /\ rpc[r] = "panic"
    /\ depth[r] > 0
    /\ chain[depth[r]] = "access"
    /\ depth' = [depth EXCEPT ![r] = @ - 1]
    /\ UNCHANGED <<active, chain, mwLogger, rpc, prog, conn, cw, panicv, rlog>>
    /\ UNCHANGED <<respVars, mwVars>>

\* RecoverAndHandle's deferred function calling the fallback on every return.
ReturnRecover_CallsFallback(r) ==
    /\ rpc[r] = "return"
    /\ depth[r] > 0
    /\ chain[depth[r]] = "recover"
    /\ rlog' = [rlog EXCEPT ![r] =
                   Append(@, Record("fallback", "", 0, ViewAt(chain, depth[r] - 1)))]
    /\ depth' = [depth EXCEPT ![r] = @ - 1]
    /\ UNCHANGED <<active, chain, mwLogger, rpc, prog, conn, cw, panicv>>
    /\ UNCHANGED <<respVars, mwVars>>

\* RecoverAndHandle's deferred function when recover() is nil.
ReturnRecover(r) ==
    /\ rpc[r] = "return"
    /\ depth[r] > 0
    /\ chain[depth[r]] = "recover"
    /\ depth' = [depth EXCEPT ![r] = @ - 1]
    /\ UNCHANGED <<active, chain, mwLogger, rpc, prog, conn, cw, panicv, rlog>>
    /\ UNCHANGED <<respVars, mwVars>>

\* RecoverAndHandle's deferred function logging the panic and leaving it there.
UnwindRecover_NoFallback(r) ==
    /\ rpc[r] = "panic"
    /\ depth[r] > 0
    /\ chain[depth[r]] = "recover"
    /\ rlog' = [rlog EXCEPT ![r] =
                   Append(@, Record("error", LoggerOf(mwLogger), 0, panicv[r]))]
    /\ panicv' = [panicv EXCEPT ![r] = NoPanic]
    /\ rpc' = [rpc EXCEPT ![r] = "return"]
    /\ depth' = [depth EXCEPT ![r] = @ - 1]
    /\ UNCHANGED <<active, chain, mwLogger, prog, conn, cw>>
    /\ UNCHANGED <<respVars, mwVars>>

\* RecoverAndHandle's deferred function when recover() is not nil:
\* logger.Error, then fallback.ServeHTTP(w, r) on the w the barrier was given.
UnwindRecover(r) ==
    /\ rpc[r] = "panic"
    /\ depth[r] > 0
    /\ chain[depth[r]] = "recover"
    /\ LET view == ViewAt(chain, depth[r] - 1)
           res == RunOps(FallbackOps, view, Rw(r))
       IN /\ rlog' = [rlog EXCEPT ![r] =
                         @ \o <<Record("error", LoggerOf(mwLogger), 0, panicv[r]),
                                Record("fallback", "", 0, view)>>]
          /\ conn' = [conn EXCEPT ![r] = res.conn]
          /\ cw' = [cw EXCEPT ![CaptureOf(r)] = res.status]
          /\ panicv' = [panicv EXCEPT ![r] = res.panic]
          /\ rpc' = [rpc EXCEPT ![r] = IF res.panic = NoPanic THEN "return" ELSE "panic"]
    /\ depth' = [depth EXCEPT ![r] = @ - 1]
    /\ UNCHANGED <<active, chain, mwLogger, prog>>
    /\ UNCHANGED <<respVars, mwVars>>

\* The outermost handler has returned to the server.
Finish(r) ==
    /\ rpc[r] = "return"
    /\ depth[r] = 0
    /\ rpc' = [rpc EXCEPT ![r] = "done"]
    /\ UNCHANGED <<active, chain, mwLogger, prog, depth, conn, cw, panicv, rlog>>
    /\ UNCHANGED <<respVars, mwVars>>

\* The panic has left the outermost handler: it reaches the server.
Crash(r) ==
    /\ rpc[r] = "panic"
    /\ depth[r] = 0
    /\ rpc' = [rpc EXCEPT ![r] = "crashed"]
    /\ UNCHANGED <<active, chain, mwLogger, prog, depth, conn, cw, panicv, rlog>>
    /\ UNCHANGED <<respVars, mwVars>>

NextRequest ==
    \E r \in Requests :
        \/ Start(r)
        \/ EnterAccess(r)
        \/ EnterRecover(r)
        \/ HandlerCall(r)
        \/ HandlerPanic(r)
        \/ HandlerReturn(r)
        \/ ReturnAccess(r)
        \/ ReturnRecover(r)
        \/ UnwindAccess(r)
        \/ UnwindRecover(r)
        \/ Finish(r)
        \/ Crash(r)

\* One request through AccessLogger, RecoverAndHandle, or one inside the other.
SpecRequest == InitRequest /\ [][NextRequest]_vars

NextConcurrent ==
    \E r \in Requests :
        \/ Start(r)
        \/ EnterAccess(r)
        \/ HandlerCall(r)
        \/ HandlerPanic(r)
        \/ HandlerReturn(r)
        \/ ReturnAccess(r)
        \/ UnwindAccess(r)
        \/ Finish(r)
        \/ Crash(r)

\* Two requests at once through one AccessLogger-wrapped handler.
SpecConcurrent == InitConcurrent /\ [][NextConcurrent]_vars

\* ------------------------------------------------- vocabulary of the claims
CallsOp(op) == SelectSeq(w.calls, LAMBDA c : c.op = op)

\* The status commits the ResponseWriter has seen, implicit ones included.
Commits == CallsOp("WriteHeader")

\* The one commit the handler is meant to make of the Response's status.
CommitOf(status) == <<Call("WriteHeader", "", "", status)>>

\* http.Error has been called on the ResponseWriter.
HttpErrorCalled ==
    \E i \in DOMAIN w.calls :
        w.calls[i].op = "Set" /\ w.calls[i].key = "X-Content-Type-Options"

\* The status the client has is the Response's, committed as such.
RespCommitted == w.code # 0 /\ ~HttpErrorCalled

IsPrefix(a, b) == Len(a) <= Len(b) /\ a = SubSeq(b, 1, Len(a))

IsHeaderOp(c) == c.op \in {"Add", "Set", "Del"}

\* The values Add was called with for raw key k, in call order.
RECURSIVE ValsOf(_)
ValsOf(cs) == IF cs = <<>> THEN <<>> ELSE <<Head(cs).val>> \o ValsOf(Tail(cs))
AddedFor(k) == ValsOf(SelectSeq(w.calls, LAMBDA c : c.op = "Add" /\ c.key = k))

StatusInRange == resp.Status >= 100 /\ resp.Status <= 599

\* ---------------------------------------------------------------- claims

\* C1: on every path of the handler (invalid status, nil body, body success,
\* body failure, flush failure), in streaming and in buffered mode, the status
\* is committed to the ResponseWriter exactly once: never twice at any moment,
\* and exactly once when the handler is done.
C1_StatusCommittedOnce ==
    /\ Len(Commits) <= 1
    /\ pc = "done" => Len(Commits) = 1 /\ w.code # 0

C1_Witness ==
    pc = "done" /\ re.Buffer /\ err = "WriteTo" /\ Len(Commits) = 1

\* C2, as claimed: in buffered mode, once the Response's status is committed
\* the client has received the complete body the body procedure produced.
C2_BufferedNeverTruncates ==
    (pc = "done" /\ re.Buffer /\ RespCommitted) => w.body = proc.data

\* C2, amended: in buffered mode, once the Response's status is committed the
\* body procedure has run to completion without error and all it produced was
\* buffered; the client has received all of it unless a write to the client
\* failed during the flush, and then it has received a strict prefix of it.
C2_BufferedTruncatesOnlyOnFlushError ==
    (pc = "done" /\ re.Buffer /\ RespCommitted) =>
        /\ err # "WriteBody"
        /\ ~proc.fails
        /\ buf.data = proc.data
        /\ IF err = "WriteTo"
           THEN ~w.ok /\ IsPrefix(w.body, proc.data) /\ w.body # proc.data
           ELSE w.body = proc.data

C2_Witness ==
    /\ pc = "done" /\ re.Buffer /\ RespCommitted
    /\ resp.Status = StatusOK
    /\ err = "WriteTo"
    /\ Len(proc.data) = 2 /\ Len(w.body) = 1

\* C3, as claimed: in buffered mode, when the body procedure fails the client
\* status is 500, the client's body is empty and a buffering error is logged.
C3_BufferErrorEmptyBody ==
    (pc = "done" /\ re.Buffer /\ err = "WriteBody") =>
        /\ w.code = 500
        /\ w.body = <<>>
        /\ \E i \in DOMAIN log : log[i].msg = MsgBuffer

\* C3, amended: in buffered mode, when the body procedure fails the client
\* status is 500, nothing the body procedure wrote reaches the client, whose
\* body is the line http.Error writes, "Internal Server Error" (nothing if
\* that write fails), and exactly one record, the buffering error, is logged.
C3_BufferErrorSends500Text ==
    (pc = "done" /\ re.Buffer /\ err = "WriteBody") =>
        /\ w.code = 500
        /\ Commits = CommitOf(500)
        /\ w.body \in {<<>>, <<ErrorText>>}
        /\ w.ok => w.body = <<ErrorText>>
        /\ log = <<[logger |-> logger, msg |-> MsgBuffer]>>

C3_Witness ==
    /\ pc = "done" /\ re.Buffer /\ err = "WriteBody"
    /\ proc.failAt = 1 /\ buf.data = <<"1">>
    /\ w.body = <<ErrorText>>

\* C4: in streaming mode, when the body procedure fails the client status is
\* the Response's status, committed before the body procedure wrote anything;
\* exactly one record, the streaming error, is logged; no error response is
\* sent and the status is not committed a second time.
C4_StreamErrorKeepsStatus ==
    (pc = "done" /\ ~re.Buffer /\ err = "WriteBody") =>
        /\ w.code = resp.Status
        /\ Commits = CommitOf(resp.Status)
        /\ w.calls # <<>> /\ ~IsHeaderOp(w.calls[Len(w.calls)])
        /\ \A i \in DOMAIN w.calls :
              w.calls[i].op = "Write" =>
                  \E j \in 1..(i - 1) : w.calls[j].op = "WriteHeader"
        /\ ~HttpErrorCalled
        /\ IsPrefix(w.body, proc.data)
        /\ log = <<[logger |-> logger, msg |-> MsgStream]>>

C4_Witness ==
    /\ pc = "done" /\ ~re.Buffer /\ err = "WriteBody"
    /\ resp.Status = StatusOK
    /\ proc.fails /\ proc.failAt = 1 /\ w.body = <<"1">>

\* C5: a Response whose status is below 100 or above 599 gets the client
\* status 500 and exactly one record, the invalid status error, whatever its
\* headers, its body procedure and the buffering flag; none of its headers is
\* copied and its body procedure is not invoked.
C5_InvalidStatusSends500 ==
    (pc = "done" /\ ~StatusInRange) =>
        /\ w.code = 500
        /\ Commits = CommitOf(500)
        /\ log = <<[logger |-> logger, msg |-> MsgInvalid]>>
        /\ CallsOp("Add") = <<>>
        /\ w.snap["X-A"] = <<>>
        /\ invoked = 0

C5_Witness ==
    /\ pc = "done" /\ resp.Status = 0
    /\ resp.HasBody /\ re.Buffer
    /\ resp.Headers["x-a"] = <<"v1", "v2">>
    /\ w.code = 500

\* C6: in buffered mode, when the body procedure succeeds and the copy of the
\* buffer to the ResponseWriter fails, the client status is the Response's
\* status, exactly one record, the flush error, is logged, no error response
\* is sent and the status is not committed a second time.
C6_FlushErrorKeepsStatus ==
    (pc = "done" /\ err = "WriteTo") =>
        /\ re.Buffer
        /\ ~proc.fails
        /\ w.code = resp.Status
        /\ Commits = CommitOf(resp.Status)
        /\ ~HttpErrorCalled
        /\ log = <<[logger |-> logger, msg |-> MsgFlush]>>

C6_Witness ==
    /\ pc = "done" /\ err = "WriteTo"
    /\ resp.Status = StatusOK /\ w.code = StatusOK
    /\ w.body = <<>> /\ buf.data # <<>>

\* C7: a Response with a status in 100..599, the two bounds included, and no
\* body procedure gets exactly its status committed, no body byte written and
\* no record logged, in either mode.
C7_NilBodyStatusOnly ==
    (pc = "done" /\ StatusInRange /\ ~resp.HasBody) =>
        /\ w.code = resp.Status
        /\ Commits = CommitOf(resp.Status)
        /\ CallsOp("Write") = <<>>
        /\ w.body = <<>>
        /\ invoked = 0
        /\ log = <<>>

C7_Witness ==
    /\ pc = "done" /\ ~resp.HasBody /\ re.Buffer
    /\ resp.Status = 100 /\ w.code = 100

\* C8: for a Response with a valid status, every header write of the handler
\* comes before the status commit and none after it, and when the status is
\* committed every value of every key of the Response has been added with
\* Header.Add, in the order the key lists them and duplicates included; when
\* it is the Response's status that is committed, the header map sent holds
\* them so.
C8_HeadersBeforeCommit ==
    StatusInRange =>
        /\ \A i, j \in DOMAIN w.calls :
              (i < j /\ w.calls[i].op = "WriteHeader") => ~IsHeaderOp(w.calls[j])
        /\ w.code # 0 =>
              /\ \A k \in RawKeys : AddedFor(k) = resp.Headers[k]
              /\ w.header = w.snap
        /\ RespCommitted =>
              /\ w.snap["Content-Type"] = resp.Headers["Content-Type"]
              /\ w.snap["X-A"] \in
                    {resp.Headers["x-a"] \o resp.Headers["X-A"],
                     resp.Headers["X-A"] \o resp.Headers["x-a"]}

C8_Witness ==
    /\ pc = "done" /\ RespCommitted
    /\ resp.Headers["X-A"] = <<"v1">> /\ resp.Headers["x-a"] = <<"v1">>
    /\ w.snap["X-A"] = <<"v1", "v1">>

\* The request has run through the whole composed handler.
RanThrough == mpc = "serve" /\ handler = <<>>

C11_QueueFirstOutermost ==
    /\ (kind = "Queue" /\ ms # <<>> /\ mpc = "serve" /\ out # <<>>) =>
          out[1] = ms[1]
    /\ (kind = "Queue" /\ ms # <<>> /\ RanThrough) =>
          out[Len(out) - 1] = ms[Len(ms)]

\* C12, as the comment on Stack states it: in Stack(m1, .., mn)(handler) the
\* first middleware passed in is the closest to the final handler, so it is
\* the last to run before it, and the last one passed in is the outermost, so
\* it is the first to run on a request.
C12_StackLastOutermost ==
    /\ (kind = "Stack" /\ ms # <<>> /\ mpc = "serve" /\ out # <<>>) =>
          out[1] = ms[Len(ms)]
    /\ (kind = "Stack" /\ ms # <<>> /\ RanThrough) =>
          out[Len(out) - 1] = ms[1]

\* C13: Queue() and Stack() of no middleware hand back the handler they are
\* given: the composed handler is the core handler itself, and a request
\* through it produces the core handler's write and nothing else.
C13_EmptyIsIdentity ==
    /\ (mpc = "serve" /\ ms = <<>> /\ out = <<>>) => handler = core
    /\ (RanThrough /\ ms = <<>>) => out = <<"core">>

C13_Witness ==
    RanThrough /\ ms = <<>> /\ kind = "Stack" /\ out = <<"core">>

\* ------------------------------ vocabulary of the claims about the middleware
\* The records of one kind that request r has left, in order.
RecordsOf(r, k) == SelectSeq(rlog[r], LAMBDA e : e.kind = k)

\* What the wrapped handler has done so far, done alone on a ResponseWriter
\* of the same kind that nothing else touches.
Alone(r) == RunOps(prog[r], ViewAt(chain, Len(chain)), Fresh)

HandlerPanicked(r) == Alone(r).panic # NoPanic

HasBarrier == \E i \in DOMAIN chain : chain[i] = "recover"

HasAccessLogger == \E i \in DOMAIN chain : chain[i] = "access"

BarrierPos == CHOOSE i \in DOMAIN chain : chain[i] = "recover"

\* The codes of the handler's WriteHeader calls, in order.
CodesWritten(r) ==
    LET whs == SelectSeq(prog[r], LAMBDA o : o.op = "WriteHeader")
    IN [i \in DOMAIN whs |-> whs[i].code]

\* C14: with RecoverAndHandle in the chain a panic of the wrapped handler
\* never gets past the barrier, and once the barrier has dealt with it the
\* request has exactly one error record, sent to the configured logger or to
\* the default one and carrying the panic's text, followed by exactly one
\* call of the fallback on the ResponseWriter the barrier was given.
C14_BarrierRecovers ==
    \A r \in Requests :
        /\ HasBarrier =>
              /\ rpc[r] # "crashed"
              /\ ~(rpc[r] = "panic" /\ depth[r] < BarrierPos)
        /\ (HasBarrier /\ HandlerPanicked(r) /\ rpc[r] \in {"return", "done"}) =>
              /\ RecordsOf(r, "error") =
                    <<Record("error", IF mwLogger = "nil" THEN "default" ELSE "custom",
                             0, Alone(r).panic)>>
              /\ RecordsOf(r, "fallback") =
                    <<Record("fallback", "", 0,
                             IF BarrierPos > 1 /\ chain[1] = "access"
                             THEN "capture" ELSE "server")>>
              /\ \E i, j \in DOMAIN rlog[r] :
                    i < j /\ rlog[r][i].kind = "error" /\ rlog[r][j].kind = "fallback"

C14_Witness ==
    /\ HasBarrier /\ mwLogger = "nil" /\ rpc["r1"] = "done"
    /\ prog["r1"] = <<Pn(PanicValue)>>
    /\ Len(RecordsOf("r1", "error")) = 1
    /\ Len(RecordsOf("r1", "fallback")) = 1

\* C15 as stated: after a recovered panic the client has the fallback's
\* status and the fallback's body, whatever the handler did before.
C15_FallbackIsResponse ==
    \A r \in Requests :
        (HasBarrier /\ HandlerPanicked(r) /\ rpc[r] = "done") =>
            /\ conn[r].code = StatusInternalServerError
            /\ conn[r].body = <<"caught panic">>

\* C15: after a recovered panic the client has the fallback's status only if
\* the handler had committed none, else the status the handler committed;
\* the body is what the handler had written followed by the fallback's body.
C15_FallbackAfterHandlerOutput ==
    \A r \in Requests :
        (HasBarrier /\ HandlerPanicked(r) /\ rpc[r] = "done") =>
            /\ conn[r].code = IF Alone(r).conn.code = 0
                              THEN StatusInternalServerError
                              ELSE Alone(r).conn.code
            /\ conn[r].body = Alone(r).conn.body \o <<"caught panic">>

C15_Witness ==
    /\ HasBarrier /\ rpc["r1"] = "done"
    /\ prog["r1"] = <<WH(404), Wr("ok"), Pn(PanicValue)>>
    /\ conn["r1"].code = 404
    /\ conn["r1"].body = <<"ok", "caught panic">>

\* C16: when the handler wrapped by RecoverAndHandle has returned without a
\* panic, the ResponseWriter is as the handler alone leaves it, the fallback
\* has not been called and there is no error record.
C16_NoPanicPassesThrough ==
    \A r \in Requests :
        (HasBarrier /\ ~HandlerPanicked(r) /\ rpc[r] = "done") =>
            /\ conn[r] = Alone(r).conn
            /\ RecordsOf(r, "fallback") = <<>>
            /\ RecordsOf(r, "error") = <<>>

C16_Witness ==
    /\ HasBarrier /\ rpc["r1"] = "done"
    /\ prog["r1"] = <<WH(404), Wr("ok")>>
    /\ conn["r1"].code = 404
    /\ conn["r1"].body = <<"ok">>
    /\ rlog["r1"] = <<>>

\* C17: a request that has gone through AccessLogger has exactly one access
\* record, also when the handler panicked and a RecoverAndHandle outside the
\* logger recovered, and no record exists while the handler still runs.
C17_OneAccessRecord ==
    \A r \in Requests :
        /\ (HasAccessLogger /\ rpc[r] = "done") =>
              Len(RecordsOf(r, "access")) = 1
        /\ (HasAccessLogger /\ rpc[r] = "call") =>
              RecordsOf(r, "access") = <<>>

\* C18: when every WriteHeader call of the handler had code 0, or it made
\* none, the access record has status 200.
C18_UnsetStatusLoggedAsOK ==
    \A r \in Requests :
        \A i \in DOMAIN rlog[r] :
            (/\ rlog[r][i].kind = "access"
             /\ \A k \in DOMAIN CodesWritten(r) : CodesWritten(r)[k] = 0) =>
                rlog[r][i].status = StatusOK

\* C19: when the handler has called WriteHeader, the access record has the
\* code of the first call (200 for 0).
C19_FirstStatusLogged ==
    \A r \in Requests :
        \A i \in DOMAIN rlog[r] :
            (rlog[r][i].kind = "access" /\ CodesWritten(r) # <<>>) =>
                rlog[r][i].status = IF CodesWritten(r)[1] = 0 THEN StatusOK
                                    ELSE CodesWritten(r)[1]

\* C20: with requests in flight at once, the status in the access record of
\* each is the one its own handler's calls alone leave in a captureWriter.
C20_RecordStatusIsOwn ==
    \A r \in Requests :
        \A i \in DOMAIN rlog[r] :
            rlog[r][i].kind = "access" => rlog[r][i].status = Alone(r).status

C20_Witness ==
    /\ rpc["r1"] = "done"
    /\ rlog["r1"] = <<Record("access", "custom", 404, "")>>
    /\ rpc["r2"] = "call" /\ depth["r2"] = 1
    /\ prog["r2"] = <<WH(200)>>
    /\ cw["r2"] = 200

\* The two orders in which the values of the Response's keys "x-a" and "X-A"
\* can end up under X-A: the range over the map visits them in either order.
MergedXA ==
    {resp.Headers["x-a"] \o resp.Headers["X-A"],
     resp.Headers["X-A"] \o resp.Headers["x-a"]}

\* C21: for a Response with a valid status whose body procedure succeeds on
\* a ResponseWriter that takes every write, the handler ends, with Buffer
\* false and with Buffer true alike, with the Response's status committed,
\* the Response's headers and no other in the header map sent, all the bytes
\* of the body procedure as the body, the procedure invoked once and nothing
\* logged: nothing of the outcome depends on the mode.
C21_ModesAgreeOnSuccess ==
    (pc = "done" /\ StatusInRange /\ resp.HasBody /\ ~proc.fails /\ w.ok) =>
        /\ w.code = resp.Status
        /\ Commits = CommitOf(resp.Status)
        /\ w.snap["Content-Type"] = resp.Headers["Content-Type"]
        /\ w.snap["X-A"] \in MergedXA
        /\ w.snap["Content-Length"] = <<>>
        /\ w.snap["X-Content-Type-Options"] = <<>>
        /\ w.body = proc.data
        /\ invoked = 1
        /\ log = <<>>

C21_Witness ==
    /\ pc = "done" /\ re.Buffer /\ w.ok /\ ~proc.fails
    /\ resp.Status = 599 /\ w.code = 599
    /\ resp.Headers["x-a"] = <<"v1">> /\ resp.Headers["X-A"] = <<"v2">>
    /\ w.snap["X-A"] = <<"v2", "v1">>
    /\ proc.data = <<"1", "2">> /\ w.body = <<"1", "2">>
    /\ invoked = 1 /\ log = <<>>

\* Every value of every key of the Response is in the header map sent.
SentContainsResponseHeaders ==
    \A k \in RawKeys :
        \A i \in DOMAIN resp.Headers[k] :
            \E j \in DOMAIN w.snap[CanonicalKey(k)] :
                w.snap[CanonicalKey(k)][j] = resp.Headers[k][i]

\* C22 as stated: the Response's headers are all added before the body
\* procedure is invoked, and when it fails in buffered mode the header map
\* the 500 is sent on contains every one of them.
C22_ErrorKeepsResponseHeaders ==
    /\ (StatusInRange /\ invoked > 0) =>
          \A k \in RawKeys : AddedFor(k) = resp.Headers[k]
    /\ (pc = "done" /\ re.Buffer /\ err = "WriteBody") =>
          /\ w.code = StatusInternalServerError
          /\ SentContainsResponseHeaders

\* C22: the Response's headers are all added before the body procedure is
\* invoked, and when it fails in buffered mode the header map the 500 is sent
\* on holds the Response's values for every key but Content-Type, which holds
\* http.Error's value alone, with http.Error's X-Content-Type-Options and no
\* Content-Length.
C22_ErrorKeepsOtherResponseHeaders ==
    /\ (StatusInRange /\ invoked > 0) =>
          \A k \in RawKeys : AddedFor(k) = resp.Headers[k]
    /\ (pc = "done" /\ re.Buffer /\ err = "WriteBody") =>
          /\ w.code = StatusInternalServerError
          /\ w.snap["X-A"] \in MergedXA
          /\ w.snap["Content-Type"] = <<"text/plain; charset=utf-8">>
          /\ w.snap["X-Content-Type-Options"] = <<"nosniff">>
          /\ w.snap["Content-Length"] = <<>>

C22_Witness ==
    /\ pc = "done" /\ re.Buffer /\ err = "WriteBody" /\ invoked = 1
    /\ resp.Headers["X-A"] = <<"v1">> /\ resp.Headers["Content-Type"] = <<"v2">>
    /\ w.code = StatusInternalServerError
    /\ w.snap["X-A"] = <<"v1">>
    /\ w.snap["Content-Type"] = <<"text/plain; charset=utf-8">>

====
